---- MODULE Spec2Model ----
(***************************************************************************)
(* A model of the SE333 test agent: the coverage-report parsers and the    *)
(* uncovered-method finders (mcp_test_runner.py, server.py,                *)
(* phase4_agent.py), the build and git wrappers, the improve_tests         *)
(* pipeline and the long-method scan of code_review_agent.                 *)
(*                                                                         *)
(* The JaCoCo XML report is a nested value                                 *)
(*   report -> package* -> class* -> method* -> counter*                   *)
(* with counters also at class, package and report level, in document      *)
(* order.  Mappings returned by the operations are records; "keys" is the  *)
(* set of the mapping's top-level keys.                                    *)
(***************************************************************************)
EXTENDS Integers, Sequences, FiniteSets, TLC

VARIABLES
    report,   \* target/site/jacoco/jacoco.xml: absent, malformed or a document
    html,     \* target/site/jacoco/index.html: absent, unreadable or its <tfoot>
    host,     \* what the machine offers: executables, directories, source files
    ret,      \* what the last operation returned (or that it raised)
    cmds,     \* the argv lists the last operation handed to subprocess.run
    opened,   \* the files the last operation opened for reading
    pc,       \* position of improve_tests
    files,    \* the generated test files written so far: path -> class it tests
    call,     \* a run-tests call in progress (SpecRun)
    javaSrc   \* text after a method's opening brace (SpecReview)

vars == <<report, html, host, ret, cmds, opened, pc, files, call, javaSrc>>

----------------------------------------------------------------------------
(* Bounds of the model *)

\* Methods in a report of SpecFinder.
MaxMethods == 2

\* A missed-instruction count so large that one covered instruction rounds
\* to a percentage of 0.00.
BigMissed == 20001

----------------------------------------------------------------------------
(* Sequences *)

Last(s) == s[Len(s)]

RemoveAt(s, k) == SubSeq(s, 1, k - 1) \o SubSeq(s, k + 1, Len(s))

----------------------------------------------------------------------------
(* The report file *)

Counter(t, m, c) == [type |-> t, missed |-> m, covered |-> c]

AbsentReport == [kind |-> "absent", pkgs |-> <<>>, counters |-> <<>>]
MalformedReport == [kind |-> "malformed", pkgs |-> <<>>, counters |-> <<>>]
Document(pkgs, counters) == [kind |-> "doc", pkgs |-> pkgs, counters |-> counters]

ExistsAlways(r) == TRUE

\* Path.exists / os.path.exists of the report path.
Exists(r) == r.kind # "absent"

\* ET.parse raises on a file that is not well-formed XML.
ParseRaises(r) == r.kind = "malformed"

\* The counters of a method a report can hold in SpecFinder: none, or an
\* INSTRUCTION counter (after a LINE counter in one choice).
InstrChoices ==
    {<<>>, <<Counter("LINE", 1, 1), Counter("INSTRUCTION", 2, 0)>>}
    \cup {<<Counter("INSTRUCTION", m, c)>> : m \in {0, 2, BigMissed}, c \in {0, 1}}

MethodNames == {"<init>", "run"}

\* A report written method by method: each entry opens a new package, a new
\* class of the current package, or adds to the current class.
Entries == [brk : {"pkg", "cls", "same"}, name : MethodNames, counters : InstrChoices]

PkgName(k) == "pkg" \o ToString(k)
ClsName(k, j) == PkgName(k) \o "/C" \o ToString(j)

AddEntry(pkgs, e) ==
    LET m == [name |-> e.name, counters |-> e.counters]
        np == Len(pkgs)
    IN  IF e.brk = "pkg" \/ np = 0
        THEN Append(pkgs, [name |-> PkgName(np + 1), counters |-> <<>>,
                           classes |-> <<[name |-> ClsName(np + 1, 1),
                                          counters |-> <<>>,
                                          methods |-> <<m>>]>>])
        ELSE LET nc == Len(pkgs[np].classes)
             IN  IF e.brk = "cls"
                 THEN [pkgs EXCEPT ![np].classes =
                          Append(@, [name |-> ClsName(np, nc + 1),
                                     counters |-> <<>>, methods |-> <<m>>])]
                 ELSE [pkgs EXCEPT ![np].classes[nc].methods = Append(@, m)]

RECURSIVE Nest(_)
Nest(es) == IF es = <<>> THEN <<>>
            ELSE AddEntry(Nest(SubSeq(es, 1, Len(es) - 1)), Last(es))

FinderDocs ==
    {Document(Nest(es), <<>>) :
        es \in UNION {[1..n -> Entries] : n \in 0..MaxMethods}}

----------------------------------------------------------------------------
(* Rounding: round(covered / total * 100, 2), in hundredths of a percent.  *)
(* Python rounds the double to the nearest hundredth; an exact tie falls   *)
(* to the even neighbour.                                                  *)

Round2Pct(covered, total) ==
    LET q == (covered * 10000) \div total
        r == (covered * 10000) % total
    IN  IF 2 * r < total THEN q
        ELSE IF 2 * r > total THEN q + 1
        ELSE IF q % 2 = 0 THEN q ELSE q + 1

----------------------------------------------------------------------------
(* The uncovered-method finders *)

\* {c.get('type'): ... for c in method.findall('counter')}: a later counter
\* of a type replaces an earlier one.
HasCounter(counters, t) == \E i \in 1..Len(counters) : counters[i].type = t

CounterOf(counters, t) ==
    counters[CHOOSE i \in 1..Len(counters) :
                /\ counters[i].type = t
                /\ \A j \in (i + 1)..Len(counters) : counters[j].type # t]

MethodRecord(pkgName, clsName, methodName) ==
    [package |-> pkgName, class |-> clsName, method |-> methodName]

\* server.suggest_tests: instr = counters.get("INSTRUCTION"); covered == 0 and missed > 0
ServerSelects(counters) ==
    /\ HasCounter(counters, "INSTRUCTION")
    /\ CounterOf(counters, "INSTRUCTION").covered = 0
    /\ CounterOf(counters, "INSTRUCTION").missed > 0

\* mcp_test_runner.find_uncovered_methods: counters.get('INSTRUCTION', (0, 0));
\* coverage = 0 if total == 0 else round(covered / total * 100, 2); coverage == 0
McpSelects(counters) ==
    LET missed == IF HasCounter(counters, "INSTRUCTION")
                  THEN CounterOf(counters, "INSTRUCTION").missed ELSE 0
        covered == IF HasCounter(counters, "INSTRUCTION")
                   THEN CounterOf(counters, "INSTRUCTION").covered ELSE 0
        total == missed + covered
        coverage == IF total = 0 THEN 0 ELSE Round2Pct(covered, total)
    IN  coverage = 0

\* server.suggest_tests: the three nested loops, package -> class -> method,
\* appending a record for each method selected, in document order.
RECURSIVE ServerScanMethods(_, _, _)
ServerScanMethods(pkgName, clsName, methods) ==
    IF methods = <<>> THEN <<>>
    ELSE (IF ServerSelects(Head(methods).counters)
          THEN <<MethodRecord(pkgName, clsName, Head(methods).name)>>
          ELSE <<>>)
         \o ServerScanMethods(pkgName, clsName, Tail(methods))

RECURSIVE ServerScanClasses(_, _)
ServerScanClasses(pkgName, classes) ==
    IF classes = <<>> THEN <<>>
    ELSE ServerScanMethods(pkgName, Head(classes).name, Head(classes).methods)
         \o ServerScanClasses(pkgName, Tail(classes))

RECURSIVE ServerScanReversed(_)
ServerScanReversed(pkgs) ==
    IF pkgs = <<>> THEN <<>>
    ELSE ServerScanReversed(Tail(pkgs))
         \o ServerScanClasses(Head(pkgs).name, Head(pkgs).classes)

RECURSIVE ServerScanPackages(_)
ServerScanPackages(pkgs) ==
    IF pkgs = <<>> THEN <<>>
    ELSE ServerScanClasses(Head(pkgs).name, Head(pkgs).classes)
         \o ServerScanPackages(Tail(pkgs))

\* mcp_test_runner.find_uncovered_methods: the same three loops.
RECURSIVE McpScanMethods(_, _, _)
McpScanMethods(pkgName, clsName, methods) ==
    IF methods = <<>> THEN <<>>
    ELSE (IF McpSelects(Head(methods).counters)
          THEN <<MethodRecord(pkgName, clsName, Head(methods).name)>>
          ELSE <<>>)
         \o McpScanMethods(pkgName, clsName, Tail(methods))

RECURSIVE McpScanClasses(_, _)
McpScanClasses(pkgName, classes) ==
    IF classes = <<>> THEN <<>>
    ELSE McpScanMethods(pkgName, Head(classes).name, Head(classes).methods)
         \o McpScanClasses(pkgName, Tail(classes))

RECURSIVE McpScanPackages(_)
McpScanPackages(pkgs) ==
    IF pkgs = <<>> THEN <<>>
    ELSE McpScanClasses(Head(pkgs).name, Head(pkgs).classes)
         \o McpScanPackages(Tail(pkgs))

\* server.suggest_tests: one suggestion beside each uncovered-method record.
ServerSuggestion(rec) ==
    [class |-> rec.class,
     method |-> rec.method,
     suggested_test_name |-> "test_" \o rec.method,
     template |-> "@Test\nvoid test_" \o rec.method \o "() {\n    new "
                  \o rec.class \o "()." \o rec.method
                  \o "();\n    // TODO: add assertions\n}"]

\* server.suggest_tests(module), as a function of the report file.
ServerSuggestTests(r) ==
    IF ~Exists(r)
    THEN [op |-> "server.suggest_tests", kind |-> "mapping", keys |-> {"error"},
          cause |-> "no-report", error |-> "JaCoCo report not found"]
    ELSE IF ParseRaises(r)
    THEN [op |-> "server.suggest_tests", kind |-> "mapping", keys |-> {"error"},
          cause |-> "parse-error", error |-> "ParseError"]
    ELSE LET unc == ServerScanPackages(r.pkgs)
         IN  [op |-> "server.suggest_tests", kind |-> "mapping",
              keys |-> {"uncovered_methods", "test_suggestions"}, cause |-> "ok",
              uncovered_methods |-> unc,
              test_suggestions |-> [i \in 1..Len(unc) |-> ServerSuggestion(unc[i])]]

\* mcp_test_runner.find_uncovered_methods(xml_path), as a function of the file.
McpFindUncoveredMethods(r) ==
    IF ~Exists(r) THEN <<>>
    ELSE IF ParseRaises(r) THEN <<[error |-> "ParseError"]>>
    ELSE McpScanPackages(r.pkgs)

----------------------------------------------------------------------------
(* The coverage parsers *)

\* Python's None where a number is expected.
None == -1

\* The keys of the coverage mapping of parse_jacoco_xml.
Metrics == {"instructions", "branches", "lines", "methods", "classes"}

\* The counter types JaCoCo writes.
JacocoTypes == {"INSTRUCTION", "BRANCH", "LINE", "COMPLEXITY", "METHOD", "CLASS"}

\* str.lower() on the counter types of the model.
Lower(t) ==
    CASE t = "INSTRUCTION" -> "instruction"
      [] t = "BRANCH" -> "branch"
      [] t = "LINE" -> "line"
      [] t = "COMPLEXITY" -> "complexity"
      [] t = "METHOD" -> "method"
      [] t = "CLASS" -> "class"
      [] t = "INSTRUCTIONS" -> "instructions"
      [] OTHER -> t

\* root.findall(".//counter"): every counter of the document, in document
\* order (a method's, then its class's, then its package's, then the report's).
RECURSIVE MethodCounters(_)
MethodCounters(methods) ==
    IF methods = <<>> THEN <<>>
    ELSE Head(methods).counters \o MethodCounters(Tail(methods))

RECURSIVE ClassCounters(_)
ClassCounters(classes) ==
    IF classes = <<>> THEN <<>>
    ELSE MethodCounters(Head(classes).methods) \o Head(classes).counters
         \o ClassCounters(Tail(classes))

RECURSIVE PackageCounters(_)
PackageCounters(pkgs) ==
    IF pkgs = <<>> THEN <<>>
    ELSE ClassCounters(Head(pkgs).classes) \o Head(pkgs).counters
         \o PackageCounters(Tail(pkgs))

AllCounters(r) == PackageCounters(r.pkgs) \o r.counters

\* pct = round((covered / total * 100), 2) if total > 0 else 0.0
CounterPct(c) ==
    LET total == c.covered + c.missed
    IN  IF total > 0 THEN Round2Pct(c.covered, total) ELSE 0

\* The loop of parse_jacoco_xml over the counters: coverage[ctype.lower()] = pct
\* when ctype.lower() is a key of coverage.
RECURSIVE CollectCoverage(_, _)
CollectCoverage(coverage, counters) ==
    IF counters = <<>> THEN coverage
    ELSE LET c == Head(counters)
             key == Lower(c.type)
         IN  CollectCoverage(IF key \in Metrics
                             THEN [coverage EXCEPT ![key] = CounterPct(c)]
                             ELSE coverage,
                             Tail(counters))

\* mcp_test_runner.parse_jacoco_xml(xml_path), as a function of the file.
ParseJacocoXmlResult(r) ==
    IF ~Exists(r)
    THEN [kind |-> "mapping", keys |-> Metrics, cause |-> "no-report",
          coverage |-> [m \in Metrics |-> None]]
    ELSE IF ParseRaises(r)
    THEN [kind |-> "mapping", keys |-> {"error"}, cause |-> "parse-error",
          coverage |-> [m \in Metrics |-> None]]
    ELSE [kind |-> "mapping", keys |-> Metrics, cause |-> "ok",
          coverage |-> CollectCoverage([m \in Metrics |-> None], AllCounters(r))]

\* round(sum(valid_values) / len(valid_values), 2) if valid_values else 0.0,
\* over hundredths of a percent.
MeanPct(S, coverage) ==
    LET n == Cardinality(S)
        RECURSIVE Sum(_)
        Sum(T) == IF T = {} THEN 0
                  ELSE LET m == CHOOSE m \in T : TRUE
                       IN  coverage[m] + Sum(T \ {m})
        q == Sum(S) \div n
        r == Sum(S) % n
    IN  IF 2 * r < n THEN q
        ELSE IF 2 * r > n THEN q + 1
        ELSE IF q % 2 = 0 THEN q ELSE q + 1

OverallCoverage(parsed) ==
    LET valid == IF "error" \in parsed.keys THEN {}
                 ELSE {m \in Metrics : parsed.coverage[m] # None}
    IN  IF valid = {} THEN 0 ELSE MeanPct(valid, parsed.coverage)

\* mcp_test_runner.run_maven_tests(project_path): h is the host, timedOut and
\* code what the build did.
McpRunMavenTestsResult(h, r, timedOut, code) ==
    IF ~h.mvn \/ ~h.moduleDir
    THEN [op |-> "mcp.run_maven_tests", kind |-> "raised", keys |-> {},
          cause |-> "not-started", exception |-> "FileNotFoundError"]
    ELSE IF timedOut
    THEN [op |-> "mcp.run_maven_tests", kind |-> "mapping", keys |-> {"error"},
          cause |-> "timeout", error |-> "Maven test run timed out"]
    ELSE LET parsed == ParseJacocoXmlResult(r)
         IN  [op |-> "mcp.run_maven_tests", kind |-> "mapping",
              keys |-> {"exit_code", "coverage_percent", "coverage", "stdout", "stderr"},
              cause |-> "ok", exit_code |-> code, stderr |-> <<"proc.stderr">>,
              coverage_percent |-> OverallCoverage(parsed),
              coverage |-> parsed]

\* root.findall("counter"): the counters that are children of the report.
RECURSIVE TotalCovered(_)
TotalCovered(counters) ==
    IF counters = <<>> THEN 0 ELSE Head(counters).covered + TotalCovered(Tail(counters))

RECURSIVE TotalMissed(_)
TotalMissed(counters) ==
    IF counters = <<>> THEN 0 ELSE Head(counters).missed + TotalMissed(Tail(counters))

\* phase4_agent.parse_coverage(), as a function of the file.
ParseCoverageResult(r) ==
    IF ~Exists(r)
    THEN [op |-> "phase4.parse_coverage", kind |-> "None", keys |-> {},
          cause |-> "no-report"]
    ELSE IF ParseRaises(r)
    THEN [op |-> "phase4.parse_coverage", kind |-> "raised", keys |-> {},
          cause |-> "parse-error", exception |-> "ParseError"]
    ELSE LET covered == TotalCovered(r.counters)
             missed == TotalMissed(r.counters)
             types == {r.counters[i].type : i \in 1..Len(r.counters)}
         IN  [op |-> "phase4.parse_coverage", kind |-> "mapping",
              keys |-> {"coverage", "stats"}, cause |-> "ok",
              coverage |-> IF covered + missed # 0
                           THEN Round2Pct(covered, covered + missed) ELSE 0,
              stats |-> [t \in types |->
                           [covered |-> CounterOf(r.counters, t).covered,
                            missed |-> CounterOf(r.counters, t).missed]]]

\* index.html, the rendered report: absent, unreadable, or a page.  Of a page
\* the model keeps what the regular expressions of run_maven_tests extract:
\* whether a <tfoot> is found, the percentages of its ctr2 cells in order, and
\* the percentage that follows a "Lines</td>", "Methods</td>" or "Classes</td>"
\* label (None without the label).
NoLabels == [lines |-> None, methods |-> None, classes |-> None]

AbsentPage == [kind |-> "absent", tfoot |-> FALSE, pcts |-> <<>>, labelled |-> NoLabels]
UnreadablePage == [kind |-> "unreadable", tfoot |-> FALSE, pcts |-> <<>>, labelled |-> NoLabels]
Page(tfoot, pcts, labelled) ==
    [kind |-> "page", tfoot |-> tfoot, pcts |-> pcts, labelled |-> labelled]

\* The mapping of the percentages found in the <tfoot>: by position, and for
\* lines, methods and classes by label when the label is found.
PageCoverage(page) ==
    LET pcts == page.pcts
        At(k) == IF Len(pcts) >= k THEN pcts[k] ELSE None
        Labelled(m, k) == IF page.labelled[m] # None THEN page.labelled[m] ELSE At(k)
    IN  [m \in Metrics |->
            CASE m = "instructions" -> At(1)
              [] m = "branches" -> At(2)
              [] m = "lines" -> Labelled("lines", 3)
              [] m = "methods" -> Labelled("methods", 4)
              [] m = "classes" -> Labelled("classes", 5)]

\* server.run_maven_tests(module): h is the host, page the rendered report,
\* code the exit code of the build.
ServerRunMavenTestsResult(h, page, code) ==
    IF ~h.moduleDir
    THEN [op |-> "server.run_maven_tests", kind |-> "mapping",
          keys |-> {"exit_code", "coverage_percent", "stdout", "stderr"},
          cause |-> "no-dir", exit_code |-> 127, coverage_percent |-> None,
          coverage |-> [m \in Metrics |-> None],
          stderr |-> <<"Module directory not found">>]
    ELSE IF ~h.mvn
    THEN [op |-> "server.run_maven_tests", kind |-> "raised", keys |-> {},
          cause |-> "not-started", exception |-> "FileNotFoundError"]
    ELSE LET found == page.kind = "page" /\ page.tfoot
             coverage == IF found THEN PageCoverage(page) ELSE [m \in Metrics |-> None]
             note == CASE page.kind = "absent" /\ code = 0 ->
                              <<"JaCoCo report not found after a successful build.">>
                       [] page.kind = "unreadable" -> <<"Error parsing report">>
                       [] page.kind = "page" /\ ~page.tfoot ->
                              <<"JaCoCo tfoot not found in report.">>
                       [] OTHER -> <<>>
         IN  [op |-> "server.run_maven_tests", kind |-> "mapping",
              keys |-> {"exit_code", "coverage_percent", "stdout", "stderr", "coverage"},
              cause |-> "ok", exit_code |-> code,
              coverage_percent |-> IF coverage["instructions"] # None
                                   THEN coverage["instructions"] ELSE 0,
              coverage |-> coverage,
              stderr |-> <<"proc.stderr">> \o note]

\* short_cls = cls.split('/')[-1].split('$')[-1], on the class names of the
\* model ("pkg<k>/C<j>", without "$"): what follows the last "/".
ShortClass(cls) ==
    IF \E k, j \in 1..9 : cls = ClsName(k, j)
    THEN "C" \o ToString(CHOOSE j \in 1..9 : \E k \in 1..9 : cls = ClsName(k, j))
    ELSE cls

\* mcp_test_runner.suggest_tests: the suggestion built from an entry.
McpSuggestion(entry) ==
    [class |-> entry.class,
     method |-> entry.method,
     suggested_test_name |-> "test_" \o entry.method,
     template |-> "@Test\nvoid test_" \o entry.method \o "() {\n    "
                  \o ShortClass(entry.class) \o "." \o entry.method
                  \o "();\n    // TODO: Add assertions\n}"]

\* for entry in uncovered: if 'error' in entry: continue; suggestions.append(...)
RECURSIVE McpSuggestions(_)
McpSuggestions(uncovered) ==
    IF uncovered = <<>> THEN <<>>
    ELSE (IF "error" \in DOMAIN Head(uncovered) THEN <<>>
          ELSE <<McpSuggestion(Head(uncovered))>>)
         \o McpSuggestions(Tail(uncovered))

\* mcp_test_runner.suggest_tests(project_path): the result of run_maven_tests
\* with the findings attached; a run_maven_tests that raises is not caught.
McpSuggestTestsResult(h, r, timedOut, code) ==
    LET result == McpRunMavenTestsResult(h, r, timedOut, code)
        uncovered == McpFindUncoveredMethods(r)
    IN  IF result.kind = "raised"
        THEN [result EXCEPT !.op = "mcp.suggest_tests"]
        ELSE [op |-> "mcp.suggest_tests",
              keys |-> result.keys \cup {"uncovered_methods", "test_suggestions"},
              uncovered_methods |-> uncovered,
              test_suggestions |-> McpSuggestions(uncovered)] @@ result

----------------------------------------------------------------------------
(* State shared by the specifications *)

\* Beside the value returned, ret names the operation and the path it took
\* ("cause": "ok", or why it could not complete).
NoRet == [op |-> "none", kind |-> "none", keys |-> {}, cause |-> "ok"]

ReportFile == "jacoco.xml"

NoCall == [variant |-> "none", pc |-> "idle", elapsed |-> 0]

\* The host: whether mvn and git can be started, whether the module directory
\* exists, and the Java source file the scanners are pointed at.
HostChoices ==
    [mvn : BOOLEAN, git : BOOLEAN, moduleDir : BOOLEAN,
     javaFile : {"absent", "unreadable", "ok"}]

GoodHost == [mvn |-> TRUE, git |-> TRUE, moduleDir |-> TRUE, javaFile |-> "ok"]

Idle == [at |-> "idle", todo |-> <<>>]

\* The variables an operation on the report leaves alone.
ReportOpFrame == UNCHANGED <<report, html, host, pc, files, call, javaSrc>>

\* mcp_test_runner.find_uncovered_methods(xml_path)
FindUncoveredMethods ==
    /\ pc = Idle
    /\ ret' = [op |-> "mcp.find_uncovered_methods", kind |-> "list", keys |-> {},
               cause |-> IF ~Exists(report) THEN "no-report"
                         ELSE IF ParseRaises(report) THEN "parse-error" ELSE "ok",
               val |-> McpFindUncoveredMethods(report)]
    /\ opened' = IF Exists(report) THEN {ReportFile} ELSE {}
    /\ cmds' = <<>>
    /\ ReportOpFrame

\* server.suggest_tests(module)
SuggestTests ==
    /\ pc = Idle
    /\ ret' = ServerSuggestTests(report)
    /\ opened' = IF Exists(report) THEN {ReportFile} ELSE {}
    /\ cmds' = <<>>
    /\ ReportOpFrame

\* mcp_test_runner.parse_jacoco_xml(xml_path)
ParseJacocoXml ==
    /\ pc = Idle
    /\ ret' = [op |-> "mcp.parse_jacoco_xml"] @@ ParseJacocoXmlResult(report)
    /\ opened' = IF Exists(report) THEN {ReportFile} ELSE {}
    /\ cmds' = <<>>
    /\ ReportOpFrame

\* phase4_agent.parse_coverage()
ParseCoverage ==
    /\ pc = Idle
    /\ ret' = ParseCoverageResult(report)
    /\ opened' = IF Exists(report) THEN {ReportFile} ELSE {}
    /\ cmds' = <<>>
    /\ ReportOpFrame

ExitCodes == {0, 1}

MvnCleanVerify == <<"mvn", "clean", "verify">>

\* mcp_test_runner.run_maven_tests(project_path), from the call to its return.
\* The report is the file the build leaves behind.
McpRunMavenTests ==
    /\ pc = Idle
    /\ \E timedOut \in BOOLEAN, code \in ExitCodes :
          ret' = McpRunMavenTestsResult(host, report, timedOut, code)
    /\ cmds' = <<MvnCleanVerify>>
    /\ opened' = IF ret'.kind = "mapping" /\ "coverage" \in ret'.keys /\ Exists(report)
                 THEN {ReportFile} ELSE {}
    /\ ReportOpFrame

\* mcp_test_runner.suggest_tests(project_path), from the call to its return.
McpSuggestTests ==
    /\ pc = Idle
    /\ \E timedOut \in BOOLEAN, code \in ExitCodes :
          ret' = McpSuggestTestsResult(host, report, timedOut, code)
    /\ cmds' = <<MvnCleanVerify>>
    /\ opened' = IF ret'.kind = "mapping" /\ Exists(report) THEN {ReportFile} ELSE {}
    /\ ReportOpFrame

HtmlFile == "index.html"

\* server.run_maven_tests(module), from the call to its return (a build that
\* never ends never returns: see SpecRun).
ServerRunMavenTests ==
    /\ pc = Idle
    /\ \E code \in ExitCodes : ret' = ServerRunMavenTestsResult(host, html, code)
    /\ cmds' = IF host.moduleDir THEN <<MvnCleanVerify>> ELSE <<>>
    /\ opened' = IF ret'.kind = "mapping" /\ "coverage" \in ret'.keys /\ html.kind # "absent"
                 THEN {HtmlFile} ELSE {}
    /\ ReportOpFrame

----------------------------------------------------------------------------
(* The arithmetic tools *)

\* server.add(a, b)
Add ==
    /\ pc = Idle
    /\ \E a, b \in {-1, 0, 2} :
          ret' = [op |-> "add", kind |-> "value", keys |-> {}, cause |-> "ok",
                  val |-> a + b]
    /\ cmds' = <<>>
    /\ opened' = {}
    /\ ReportOpFrame

\* math.sqrt(x) raises ValueError on a negative number.
SqrtResult(x) ==
    IF x < 0
    THEN [op |-> "sqrt", kind |-> "raised", keys |-> {}, cause |-> "invalid-argument",
          exception |-> "ValueError"]
    ELSE [op |-> "sqrt", kind |-> "value", keys |-> {}, cause |-> "ok",
          val |-> CHOOSE r \in 0..x : r * r = x]

\* server.sqrt(x)
Sqrt ==
    /\ pc = Idle
    /\ \E x \in {-1, 0, 4} : ret' = SqrtResult(x)
    /\ cmds' = <<>>
    /\ opened' = {}
    /\ ReportOpFrame

----------------------------------------------------------------------------
(* The git wrappers.  h is the host; code is the exit code of the command    *)
(* when it could be started.                                                *)

GitExitCodes == {0, 1}
Remotes == {"origin", "upstream"}
Branches == {"main", "dev"}
Messages == {"Automated commit", "Auto-generated improved JUnit tests"}

GitStatusShort == <<"git", "status", "--short">>
GitAddAll == <<"git", "add", "--all">>
GitCommitCmd(message) == <<"git", "commit", "-m", message>>
GitPushForReal(remote, branch) == <<"git", "push", remote, branch>>
GitPushCmd(remote, branch) == <<"git", "push", "--dry-run", remote, branch>>
GitRevParse == <<"git", "rev-parse", "--abbrev-ref", "HEAD">>

\* try: subprocess.run(..., capture_output=True, text=True) ... except Exception:
\* the shape git_status, git_commit and git_push share.
CapturedOmitsStderr(op, h, code) ==
    IF ~h.git
    THEN [op |-> op, kind |-> "mapping", keys |-> {"exit_code", "stdout"},
          cause |-> "not-started", exit_code |-> 1, stderr |-> <<>>]
    ELSE [op |-> op, kind |-> "mapping", keys |-> {"exit_code", "stdout", "stderr"},
          cause |-> IF code = 0 THEN "ok" ELSE "command-failed",
          exit_code |-> code, stderr |-> <<"proc.stderr">>]

Captured(op, h, code) ==
    IF ~h.git
    THEN [op |-> op, kind |-> "mapping", keys |-> {"exit_code", "stdout", "stderr"},
          cause |-> "not-started", exit_code |-> 1, stderr |-> <<"FileNotFoundError">>]
    ELSE [op |-> op, kind |-> "mapping", keys |-> {"exit_code", "stdout", "stderr"},
          cause |-> IF code = 0 THEN "ok" ELSE "command-failed",
          exit_code |-> code, stderr |-> <<"proc.stderr">>]

\* server.git_add_all(): only CalledProcessError is caught.
GitAddAllResult(h, code) ==
    IF ~h.git
    THEN [op |-> "git_add_all", kind |-> "raised", keys |-> {},
          cause |-> "not-started", exception |-> "FileNotFoundError"]
    ELSE IF code # 0
    THEN [op |-> "git_add_all", kind |-> "mapping", keys |-> {"message", "stderr"},
          cause |-> "staging-failed", message |-> "Failed to stage files.",
          stderr |-> <<"CalledProcessError">>]
    ELSE [op |-> "git_add_all", kind |-> "mapping", keys |-> {"message", "stdout"},
          cause |-> "ok", message |-> "All changes staged successfully.",
          stderr |-> <<>>]

GitAddAllCmds(h, code) ==
    IF h.git /\ code = 0 THEN <<GitAddAll, GitStatusShort>> ELSE <<GitAddAll>>

\* server.git_pull_request(base, title, body): the URL is built from base and
\* the branch name git printed.
GitPullRequestResult(h, base, current) ==
    IF ~h.git
    THEN [op |-> "git_pull_request", kind |-> "mapping", keys |-> {"error"},
          cause |-> "not-started", error |-> "FileNotFoundError"]
    ELSE [op |-> "git_pull_request", kind |-> "mapping", keys |-> {"message", "url"},
          cause |-> "ok",
          url |-> "https://github.com/YOUR_USERNAME/SE333Finaljguiang/compare/"
                  \o base \o "..." \o current \o "?expand=1"]

GitFrame == opened' = {} /\ UNCHANGED <<report, html, host, files, call, javaSrc>>

\* server.git_status()
GitStatus ==
    /\ pc = Idle
    /\ \E code \in GitExitCodes : ret' = Captured("git_status", host, code)
    /\ cmds' = <<GitStatusShort>>
    /\ pc' = pc
    /\ GitFrame

\* server.git_add_all()
GitAddAllOp ==
    /\ pc = Idle
    /\ \E code \in GitExitCodes :
          /\ ret' = GitAddAllResult(host, code)
          /\ cmds' = GitAddAllCmds(host, code)
    /\ pc' = pc
    /\ GitFrame

\* server.git_commit(message)
GitCommit ==
    /\ pc = Idle
    /\ \E code \in GitExitCodes, message \in Messages :
          /\ ret' = Captured("git_commit", host, code)
          /\ cmds' = <<GitCommitCmd(message)>>
    /\ pc' = pc
    /\ GitFrame

\* server.git_push(remote, branch)
GitPush ==
    /\ pc = Idle
    /\ \E code \in GitExitCodes, remote \in Remotes, branch \in Branches :
          /\ ret' = Captured("git_push", host, code)
          /\ cmds' = <<GitPushCmd(remote, branch)>>
    /\ pc' = pc
    /\ GitFrame

\* server.git_pull_request(base, title, body)
GitPullRequest ==
    /\ pc = Idle
    /\ \E base \in Branches, current \in Branches :
          ret' = GitPullRequestResult(host, base, current)
    /\ cmds' = <<GitRevParse>>
    /\ pc' = pc
    /\ GitFrame

----------------------------------------------------------------------------
(* The source scanners *)

JavaFile == "Source.java"

\* server.spec_based_tester(java_file): the file is opened outside any try.
SpecBasedTesterResult(h) ==
    IF h.javaFile = "absent"
    THEN [op |-> "spec_based_tester", kind |-> "mapping", keys |-> {"error"},
          cause |-> "no-file", error |-> "File not found"]
    ELSE IF h.javaFile = "unreadable"
    THEN [op |-> "spec_based_tester", kind |-> "raised", keys |-> {},
          cause |-> "unreadable", exception |-> "UnicodeDecodeError"]
    ELSE [op |-> "spec_based_tester", kind |-> "mapping", keys |-> {"file", "tests"},
          cause |-> "ok"]

SpecBasedTester ==
    /\ pc = Idle
    /\ ret' = SpecBasedTesterResult(host)
    /\ opened' = IF host.javaFile = "absent" THEN {} ELSE {JavaFile}
    /\ cmds' = <<>>
    /\ ReportOpFrame

\* The Java source is a sequence of pieces: "SIG{" is a text the method
\* pattern of code_review_agent matches (visibility, type, name, parameters
\* and the opening brace); "{", "}" and "\n" are single characters; "x" is
\* any other text.
MethodStarts(code) == {i \in 1..Len(code) : code[i] = "SIG{"}

\* code.find("}", start): the first "}" after piece i, 0 when there is none
\* (Python's -1).
FindClose(code, i) ==
    IF \E j \in (i + 1)..Len(code) : code[j] = "}"
    THEN CHOOSE j \in (i + 1)..Len(code) :
            /\ code[j] = "}"
            /\ \A k \in (i + 1)..(j - 1) : code[k] # "}"
    ELSE 0

\* body = code[start:end]; with end = -1 the slice stops before the last piece.
MethodBody(code, i) ==
    LET end == FindClose(code, i)
    IN  IF end = 0 THEN SubSeq(code, i + 1, Len(code) - 1)
        ELSE SubSeq(code, i + 1, end - 1)

\* body.count("\n")
CountNewlines(body) == Cardinality({j \in 1..Len(body) : body[j] = "\n"})

LongMethodLines == 30

IsLongOffByOne(body) == CountNewlines(body) >= LongMethodLines

\* if body.count("\n") > 30
IsLong(body) == CountNewlines(body) > LongMethodLines

\* The matches of the method pattern reported as "Long method (>30 lines)".
LongMethods(code) == {i \in MethodStarts(code) : IsLong(MethodBody(code, i))}

\* server.code_review_agent(java_dir), for a directory of one Java file.  Of
\* the issues it keeps the long-method ones: the Javadoc and nested-loop
\* scans append their own issues and read nothing of these.
CodeReviewAgentResult(h, code) ==
    IF h.javaFile = "unreadable"
    THEN [op |-> "code_review_agent", kind |-> "raised", keys |-> {},
          cause |-> "unreadable", exception |-> "UnicodeDecodeError"]
    ELSE [op |-> "code_review_agent", kind |-> "mapping", keys |-> {"dir", "issues"},
          cause |-> "ok",
          long_methods |-> IF h.javaFile = "absent" THEN {} ELSE LongMethods(code)]

CodeReviewAgent ==
    /\ pc = Idle
    /\ ret' = CodeReviewAgentResult(host, javaSrc)
    /\ opened' = IF host.javaFile = "absent" THEN {} ELSE {JavaFile}
    /\ cmds' = <<>>
    /\ ReportOpFrame

----------------------------------------------------------------------------
(* phase4_agent.improve_tests, step by step *)

MvnTest == <<"mvn", "test">>

\* sanitize_method_name: "<init>" becomes "constructor"; of another name the
\* "<" and ">" are dropped and each "/" becomes "_" (a table over the names
\* that hold one of these characters; a name without them is unchanged).
SanitizeMethodName(method) ==
    CASE method = "<init>" -> "constructor"
      [] method = "<clinit>" -> "clinit"
      [] method = "init" -> "init"
      [] method = "lambda/run" -> "lambda_run"
      [] OTHER -> method

\* generate_test_file(suggestion): the path written and what the file tests.
GeneratedFile(suggestion) ==
    [path |-> "Generated_" \o SanitizeMethodName(suggestion.method) \o "_Test.java",
     class |-> suggestion.class,
     method |-> suggestion.method]

\* open(file_path, "w"): a file of the same path is replaced.
WriteFile(fs, f) == {g \in fs : g.path # f.path} \cup {f}

StepFrame == UNCHANGED <<report, html, host, call, javaSrc>>

\* Step 1: run_maven_tests() of phase4_agent; its subprocess.run is not guarded.
ImproveRunTests ==
    /\ pc = Idle
    /\ cmds' = <<MvnTest>>
    /\ opened' = {}
    /\ files' = files
    /\ IF ~host.mvn \/ ~host.moduleDir
       THEN /\ ret' = [op |-> "improve_tests", kind |-> "raised", keys |-> {},
                       cause |-> "not-started", exception |-> "FileNotFoundError"]
            /\ pc' = Idle
       ELSE /\ \E code \in ExitCodes :
                  ret' = [op |-> "phase4.run_maven_tests", kind |-> "value",
                          keys |-> {}, cause |-> "ok", val |-> code]
            /\ pc' = [at |-> "parse", todo |-> <<>>]
    /\ StepFrame

\* Step 2: coverage = parse_coverage(); if not coverage: return
ImproveParseCoverage ==
    /\ pc.at = "parse"
    /\ cmds' = <<>>
    /\ opened' = IF Exists(report) THEN {ReportFile} ELSE {}
    /\ files' = files
    /\ LET c == ParseCoverageResult(report)
       IN  IF c.kind = "mapping"
           THEN ret' = c /\ pc' = [at |-> "suggest", todo |-> <<>>]
           ELSE ret' = [c EXCEPT !.op = "improve_tests"] /\ pc' = Idle
    /\ StepFrame

\* Step 3: suggestions = suggest_tests(JAVA_PROJECT)
ImproveSuggestTests ==
    /\ pc.at = "suggest"
    /\ cmds' = <<>>
    /\ opened' = IF Exists(report) THEN {ReportFile} ELSE {}
    /\ files' = files
    /\ ret' = ServerSuggestTests(report)
    /\ pc' = [at |-> "generate",
              todo |-> IF "test_suggestions" \in ret'.keys
                       THEN ret'.test_suggestions ELSE <<>>]
    /\ StepFrame

\* Step 4: generate_test_file(s) for the next suggestion.
ImproveGenerateTestFile ==
    /\ pc.at = "generate"
    /\ pc.todo # <<>>
    /\ cmds' = <<>>
    /\ opened' = {}
    /\ files' = WriteFile(files, GeneratedFile(Head(pc.todo)))
    /\ ret' = [op |-> "phase4.generate_test_file", kind |-> "None", keys |-> {},
               cause |-> "ok"]
    /\ pc' = [pc EXCEPT !.todo = Tail(@)]
    /\ StepFrame

\* Step 5: git_add_all(), which raises when git cannot be started.
ImproveGitAddAll ==
    /\ pc.at = "generate"
    /\ pc.todo = <<>>
    /\ \E code \in GitExitCodes :
          /\ ret' = GitAddAllResult(host, code)
          /\ cmds' = GitAddAllCmds(host, code)
    /\ opened' = {}
    /\ files' = files
    /\ pc' = IF ret'.kind = "raised" THEN Idle ELSE [at |-> "commit", todo |-> <<>>]
    /\ StepFrame

\* git_commit("Auto-generated improved JUnit tests")
ImproveGitCommit ==
    /\ pc.at = "commit"
    /\ \E code \in GitExitCodes : ret' = Captured("git_commit", host, code)
    /\ cmds' = <<GitCommitCmd("Auto-generated improved JUnit tests")>>
    /\ opened' = {}
    /\ files' = files
    /\ pc' = [at |-> "push", todo |-> <<>>]
    /\ StepFrame

\* git_push(), with its defaults.
ImproveGitPush ==
    /\ pc.at = "push"
    /\ \E code \in GitExitCodes : ret' = Captured("git_push", host, code)
    /\ cmds' = <<GitPushCmd("origin", "main")>>
    /\ opened' = {}
    /\ files' = files
    /\ pc' = Idle
    /\ StepFrame

----------------------------------------------------------------------------
(* Spec: the operations, in any order, on a host drawn at the start *)

\* Two classes with an uncovered method "run" each and a covered constructor.
OpsDocument ==
    Document(Nest(<<[brk |-> "pkg", name |-> "<init>",
                     counters |-> <<Counter("INSTRUCTION", 0, 1)>>],
                    [brk |-> "same", name |-> "run",
                     counters |-> <<Counter("INSTRUCTION", 2, 0)>>],
                    [brk |-> "cls", name |-> "run",
                     counters |-> <<Counter("INSTRUCTION", 2, 0)>>]>>),
             <<Counter("INSTRUCTION", 20, 80), Counter("BRANCH", 20, 0)>>)

OpsReports == {AbsentReport, MalformedReport, OpsDocument}

OpsPages == {AbsentPage, UnreadablePage, Page(TRUE, <<8000, 5000>>, NoLabels)}

ShortSource == <<"SIG{", "\n", "x", "\n", "}">>

Init ==
    /\ report \in OpsReports
    /\ html \in OpsPages
    /\ host \in HostChoices
    /\ ret = NoRet
    /\ cmds = <<>>
    /\ opened = {}
    /\ pc = Idle
    /\ files = {}
    /\ call = NoCall
    /\ javaSrc = ShortSource

Next ==
    \/ Add
    \/ Sqrt
    \/ ParseJacocoXml
    \/ ParseCoverage
    \/ FindUncoveredMethods
    \/ McpRunMavenTests
    \/ ServerRunMavenTests
    \/ SuggestTests
    \/ McpSuggestTests
    \/ GitStatus
    \/ GitAddAllOp
    \/ GitCommit
    \/ GitPush
    \/ GitPullRequest
    \/ SpecBasedTester
    \/ CodeReviewAgent
    \/ ImproveRunTests
    \/ ImproveParseCoverage
    \/ ImproveSuggestTests
    \/ ImproveGenerateTestFile
    \/ ImproveGitAddAll
    \/ ImproveGitCommit
    \/ ImproveGitPush

Spec == Init /\ [][Next]_vars

IsPush(cmd) == Len(cmd) >= 2 /\ cmd[1] = "git" /\ cmd[2] = "push"

IsDryRunPush(cmd) ==
    /\ Len(cmd) = 5
    /\ SubSeq(cmd, 1, 3) = <<"git", "push", "--dry-run">>

\* C3: every push command an operation issues, improve_tests included, is
\* "git push --dry-run <remote> <branch>"; git_push issues that one command
\* and nothing else; git_pull_request issues only the local
\* "git rev-parse --abbrev-ref HEAD" and returns a URL (or an error).
C3_OnlyDryRunPush ==
    /\ \A i \in 1..Len(cmds) : IsPush(cmds[i]) => IsDryRunPush(cmds[i])
    /\ ret.op = "git_push" => Len(cmds) = 1 /\ IsDryRunPush(cmds[1])
    /\ ret.op = "git_pull_request" =>
          /\ cmds = <<(<<"git", "rev-parse", "--abbrev-ref", "HEAD">>)>>
          /\ ret.keys \in {{"message", "url"}, {"error"}}

\* improve_tests has written a test file and ended with its git_push().
C3_Witness ==
    /\ pc = Idle
    /\ files # {}
    /\ ret.op = "git_push"
    /\ cmds = <<(<<"git", "push", "--dry-run", "origin", "main">>)>>

ExposedOps ==
    {"add", "sqrt", "server.run_maven_tests", "mcp.run_maven_tests",
     "server.suggest_tests", "mcp.suggest_tests", "git_status", "git_add_all", "git_commit", "git_push",
     "git_pull_request", "spec_based_tester", "code_review_agent"}

\* C4: no exposed operation raises past its boundary.
C4_NoOperationRaises ==
    ret.op \in ExposedOps => ret.kind # "raised"

\* C6: on a missing report file no parser raises or opens anything:
\* parse_jacoco_xml returns the mapping of the five metrics, all unset,
\* find_uncovered_methods the empty list and parse_coverage None.
C6_MissingReport ==
    report = AbsentReport =>
        /\ ret.op = "mcp.parse_jacoco_xml" =>
              /\ ret.kind = "mapping"
              /\ ret.keys = {"instructions", "branches", "lines", "methods", "classes"}
              /\ \A m \in ret.keys : ret.coverage[m] = None
              /\ opened = {}
        /\ ret.op = "mcp.find_uncovered_methods" =>
              /\ ret.kind = "list"
              /\ ret.val = <<>>
              /\ opened = {}
        /\ ret.op = "phase4.parse_coverage" =>
              /\ ret.kind = "None"
              /\ opened = {}

\* parse_coverage returned None on a missing report.
C6_Witness ==
    /\ report = AbsentReport
    /\ ret.op = "phase4.parse_coverage"
    /\ ret.kind = "None"

\* The failures C7 names, of an operation that returned a mapping.
CouldNotComplete ==
    /\ ret.kind = "mapping"
    /\ \/ ret.op \in {"server.run_maven_tests", "mcp.run_maven_tests"}
             /\ ret.cause \in {"no-dir", "timeout"}
       \/ ret.op = "server.suggest_tests" /\ ret.cause \in {"no-report", "parse-error"}
       \/ ret.op = "git_add_all" /\ ret.cause = "staging-failed"
       \/ ret.op \in {"git_status", "git_commit", "git_push", "git_pull_request"}
             /\ ret.cause = "not-started"

----------------------------------------------------------------------------
(* SpecFinder: the two finders applied to every report of FinderDocs *)

InitFinder ==
    /\ report \in FinderDocs \cup {AbsentReport, MalformedReport}
    /\ html = AbsentPage
    /\ host = GoodHost
    /\ ret = NoRet
    /\ cmds = <<>>
    /\ opened = {}
    /\ pc = Idle
    /\ files = {}
    /\ call = NoCall
    /\ javaSrc = <<>>

NextFinder == FindUncoveredMethods \/ SuggestTests \/ McpSuggestTests

SpecFinder == InitFinder /\ [][NextFinder]_vars

\* The list of method records an operation returned, when it returned one.
ReturnedRecords ==
    IF ret.op = "mcp.find_uncovered_methods" THEN ret.val
    ELSE IF ret.op = "server.suggest_tests" /\ "uncovered_methods" \in ret.keys
    THEN ret.uncovered_methods
    ELSE <<>>

\* Positions <<package, class, method>> of the methods of a document.
Positions(r) ==
    {pos \in (1..Len(r.pkgs)) \X (1..MaxMethods + 1) \X (1..MaxMethods + 1) :
        /\ pos[2] <= Len(r.pkgs[pos[1]].classes)
        /\ pos[3] <= Len(r.pkgs[pos[1]].classes[pos[2]].methods)}

MethodAt(r, pos) == r.pkgs[pos[1]].classes[pos[2]].methods[pos[3]]

RecordAt(r, pos) ==
    MethodRecord(r.pkgs[pos[1]].name, r.pkgs[pos[1]].classes[pos[2]].name,
                 MethodAt(r, pos).name)

\* The method's INSTRUCTION counter has covered = 0 and missed > 0.
Uncovered(m) ==
    \E i \in 1..Len(m.counters) :
        /\ m.counters[i].type = "INSTRUCTION"
        /\ m.counters[i].covered = 0
        /\ m.counters[i].missed > 0

\* C1: every record returned by either finder is the record of a method of
\* the report whose INSTRUCTION counter has covered = 0 and missed > 0.
C1_OnlyUncoveredReturned ==
    report.kind = "doc" =>
        \A i \in 1..Len(ReturnedRecords) :
            \E pos \in Positions(report) :
                /\ RecordAt(report, pos) = ReturnedRecords[i]
                /\ Uncovered(MethodAt(report, pos))

\* The report up to, and without, the method at pos.
Before(r, pos) ==
    LET p == pos[1]
        c == pos[2]
        m == pos[3]
        cls == [r.pkgs[p].classes[c] EXCEPT !.methods = SubSeq(@, 1, m - 1)]
        pkg == [r.pkgs[p] EXCEPT !.classes = Append(SubSeq(@, 1, c - 1), cls)]
    IN  [r EXCEPT !.pkgs = Append(SubSeq(@, 1, p - 1), pkg)]

\* The report with the method at pos fully covered.
CoveredAt(r, pos) ==
    [r EXCEPT !.pkgs[pos[1]].classes[pos[2]].methods[pos[3]].counters =
        <<Counter("INSTRUCTION", 0, 1)>>]

FinderOutput(op, r) ==
    IF op = "server.suggest_tests" THEN ServerSuggestTests(r).uncovered_methods
    ELSE McpFindUncoveredMethods(r)

\* C2: for a well-formed report, each method whose INSTRUCTION counter has
\* covered = 0 and missed > 0 contributes exactly one record to the list a
\* finder returned: the record holds the method's package, class and name,
\* it stands right after the records of the methods before it in the
\* document, and it is the only record that goes when the method is covered.
C2_EachUncoveredOnceInOrder ==
    (report.kind = "doc" /\ ret.op \in {"server.suggest_tests", "mcp.find_uncovered_methods"}) =>
        \A pos \in Positions(report) :
            Uncovered(MethodAt(report, pos)) =>
                LET k == Len(FinderOutput(ret.op, Before(report, pos))) + 1
                IN  /\ k <= Len(ReturnedRecords)
                    /\ ReturnedRecords[k] = RecordAt(report, pos)
                    /\ RemoveAt(ReturnedRecords, k)
                         = FinderOutput(ret.op, CoveredAt(report, pos))

\* Two uncovered methods of two packages were listed by server.suggest_tests.
C2_Witness ==
    /\ ret.op = "server.suggest_tests"
    /\ report.kind = "doc"
    /\ Len(report.pkgs) = 2
    /\ \A pos \in Positions(report) : Uncovered(MethodAt(report, pos))
    /\ Len(ReturnedRecords) = 2

\* The method and test name of each suggestion of a list.
NamedTests(suggestions) ==
    [i \in 1..Len(suggestions) |->
        [class |-> suggestions[i].class,
         method |-> suggestions[i].method,
         suggested_test_name |-> suggestions[i].suggested_test_name]]

\* C12: on a well-formed report the list of records a finder returned is the
\* list the other finder returns, and the suggestions a suggest_tests
\* returned are for the methods, and have the test names, of the suggestions
\* the other suggest_tests returns.
C12_DuplicatesAgree ==
    report.kind = "doc" =>
        /\ ret.op = "mcp.find_uncovered_methods" =>
              ret.val = ServerSuggestTests(report).uncovered_methods
        /\ ret.op = "server.suggest_tests" =>
              /\ ret.uncovered_methods = McpFindUncoveredMethods(report)
              /\ NamedTests(ret.test_suggestions)
                    = NamedTests(McpSuggestions(McpFindUncoveredMethods(report)))
        /\ (ret.op = "mcp.suggest_tests" /\ "test_suggestions" \in ret.keys) =>
              /\ ret.uncovered_methods = ServerSuggestTests(report).uncovered_methods
              /\ NamedTests(ret.test_suggestions)
                    = NamedTests(ServerSuggestTests(report).test_suggestions)

----------------------------------------------------------------------------
(* SpecCoverage: the coverage parsers applied to reports with counters *)

\* Counters at the root of a report of SpecCoverage.
MaxCounters == 2

CounterChoices ==
    {Counter(t, m, c) : t \in {"INSTRUCTION", "BRANCH", "LINE", "INSTRUCTIONS"},
                        m \in {0, 20}, c \in {0, 1, 80}}

\* No package, or one package of one class of one method of two instructions.
PkgChoices ==
    {<<>>,
     <<[name |-> "pkg1", counters |-> <<Counter("INSTRUCTION", 2, 0)>>,
        classes |-> <<[name |-> "pkg1/C1",
                       counters |-> <<Counter("INSTRUCTION", 2, 0)>>,
                       methods |-> <<[name |-> "run",
                                      counters |-> <<Counter("INSTRUCTION", 2, 0)>>]>>]>>]>>}

MetricDocs ==
    {Document(pkgs, cs) :
        pkgs \in PkgChoices,
        cs \in UNION {[1..n -> CounterChoices] : n \in 0..MaxCounters}}

PageChoices ==
    {AbsentPage, UnreadablePage}
    \cup {Page(FALSE, <<>>, NoLabels)}
    \cup {Page(TRUE, pcts, labelled) :
            pcts \in {<<>>, <<8000>>, <<8000, 5000>>, <<8000, 5000, 7000, 6000, 9000>>},
            labelled \in [lines : {None, 7500}, methods : {None, 6500},
                          classes : {None, 10000}]}

InitCoverage ==
    /\ \/ report \in MetricDocs /\ html = AbsentPage
       \/ report \in {AbsentReport, MalformedReport} /\ html \in PageChoices
    /\ host = GoodHost
    /\ ret = NoRet
    /\ cmds = <<>>
    /\ opened = {}
    /\ pc = Idle
    /\ files = {}
    /\ call = NoCall
    /\ javaSrc = <<>>

NextCoverage ==
    \/ ParseJacocoXml
    \/ McpRunMavenTests
    \/ ParseCoverage
    \/ ServerRunMavenTests

SpecCoverage == InitCoverage /\ [][NextCoverage]_vars

\* A report as JaCoCo writes it: counter types of JaCoCo, each at most once
\* among the report's own counters.
ValidReport(r) ==
    /\ r.kind = "doc"
    /\ \A i \in 1..Len(AllCounters(r)) : AllCounters(r)[i].type \in JacocoTypes
    /\ \A i, j \in 1..Len(r.counters) :
          r.counters[i].type = r.counters[j].type => i = j

\* The counter type JaCoCo gives a metric.
TypeOf(metric) ==
    CASE metric = "instructions" -> "INSTRUCTION"
      [] metric = "branches" -> "BRANCH"
      [] metric = "lines" -> "LINE"
      [] metric = "methods" -> "METHOD"
      [] metric = "classes" -> "CLASS"

\* round(covered/(covered+missed)*100, 2), or 0 when covered+missed = 0.
ExpectedPct(c) ==
    IF c.covered + c.missed = 0 THEN 0
    ELSE Round2Pct(c.covered, c.covered + c.missed)

\* C5: for a valid report, the percentage parse_jacoco_xml returns for a
\* metric the report counts lies in [0, 100] and is the rounded percentage of
\* that metric's covered and missed counts.
C5_MetricPercentages ==
    (ret.op = "mcp.parse_jacoco_xml" /\ ValidReport(report)) =>
        \A m \in Metrics :
            HasCounter(report.counters, TypeOf(m)) =>
                /\ ret.coverage[m] = ExpectedPct(CounterOf(report.counters, TypeOf(m)))
                /\ ret.coverage[m] >= 0
                /\ ret.coverage[m] <= 10000

\* The aggregate coverage an operation returned, when it returned one.
HasAggregate ==
    \/ ret.op = "phase4.parse_coverage" /\ ret.kind = "mapping"
    \/ ret.op = "mcp.run_maven_tests" /\ "coverage_percent" \in ret.keys

Aggregate ==
    IF ret.op = "phase4.parse_coverage" THEN ret.coverage ELSE ret.coverage_percent

\* C9: the aggregate coverage of a valid report is the percentage of its
\* instruction counter, whatever its other counters are.
C9_AggregateIsInstructionPct ==
    (HasAggregate /\ ValidReport(report) /\ HasCounter(report.counters, "INSTRUCTION")) =>
        Aggregate = ExpectedPct(CounterOf(report.counters, "INSTRUCTION"))

----------------------------------------------------------------------------
(* SpecRun: a run-tests call from the start of the build to its return.     *)
(* subprocess.run blocks the caller until the build exits or, when a        *)
(* timeout was given, until the timeout expires.                            *)

\* timeout=120 of mcp_test_runner.run_maven_tests, in seconds.
McpTimeout == 120

\* How long the model lets the clock run on a call without timeout.
MaxWait == 125

Variants == {"mcp", "server", "phase4"}

RunFrame == UNCHANGED <<report, html, host, pc, files, javaSrc, opened>>

\* The call is made: the build is started, unless it cannot be.
RunStart ==
    /\ call.pc # "running"
    /\ \E v \in Variants :
          LET early ==
                  CASE v = "mcp" -> McpRunMavenTestsResult(host, report, FALSE, 0)
                    [] v = "server" -> ServerRunMavenTestsResult(host, html, 0)
                    [] v = "phase4" ->
                          [op |-> "phase4.run_maven_tests", kind |-> "raised",
                           keys |-> {}, cause |-> "not-started",
                           exception |-> "FileNotFoundError"]
          IN  IF host.mvn /\ host.moduleDir
              THEN /\ call' = [variant |-> v, pc |-> "running", elapsed |-> 0]
                   /\ ret' = NoRet
                   /\ cmds' = <<IF v = "phase4" THEN MvnTest ELSE MvnCleanVerify>>
              ELSE /\ call' = [variant |-> v, pc |-> "returned", elapsed |-> 0]
                   /\ ret' = early
                   /\ cmds' = IF v = "server" /\ ~host.moduleDir THEN <<>>
                              ELSE <<IF v = "phase4" THEN MvnTest ELSE MvnCleanVerify>>
    /\ RunFrame

\* A second passes while the build runs.
Tick ==
    /\ call.pc = "running"
    /\ call.elapsed < (IF call.variant = "mcp" THEN McpTimeout ELSE MaxWait)
    /\ call' = [call EXCEPT !.elapsed = @ + 1]
    /\ UNCHANGED <<ret, cmds>>
    /\ RunFrame

\* The build exits and the call returns what it made of it.
BuildExits ==
    /\ call.pc = "running"
    /\ call.variant = "mcp" => call.elapsed < McpTimeout
    /\ \E code \in ExitCodes :
          ret' = CASE call.variant = "mcp" ->
                        McpRunMavenTestsResult(host, report, FALSE, code)
                   [] call.variant = "server" ->
                        ServerRunMavenTestsResult(host, html, code)
                   [] call.variant = "phase4" ->
                        [op |-> "phase4.run_maven_tests", kind |-> "value",
                         keys |-> {}, cause |-> "ok", val |-> code]
    /\ call' = [call EXCEPT !.pc = "returned"]
    /\ cmds' = cmds
    /\ RunFrame

TimeoutNever == FALSE /\ UNCHANGED vars

\* except subprocess.TimeoutExpired: only mcp_test_runner passes a timeout.
TimeoutExpired ==
    /\ call.pc = "running"
    /\ call.variant = "mcp"
    /\ call.elapsed = McpTimeout
    /\ ret' = McpRunMavenTestsResult(host, report, TRUE, 0)
    /\ call' = [call EXCEPT !.pc = "returned"]
    /\ cmds' = cmds
    /\ RunFrame

InitRun ==
    /\ report = OpsDocument
    /\ html = Page(TRUE, <<8000, 5000>>, NoLabels)
    /\ host \in {h \in HostChoices : h.git /\ h.javaFile = "ok"}
    /\ ret = NoRet
    /\ cmds = <<>>
    /\ opened = {}
    /\ pc = Idle
    /\ files = {}
    /\ call = NoCall
    /\ javaSrc = ShortSource

NextRun == RunStart \/ Tick \/ BuildExits \/ TimeoutExpired

\* Time passes and an expired timeout is acted on; nothing makes a build end.
FairSpecRun ==
    InitRun /\ [][NextRun]_vars /\ WF_vars(Tick) /\ WF_vars(TimeoutExpired)

\* C8 as stated: every run-tests call eventually returns.
C8_EveryRunReturns ==
    (call.pc = "running") ~> (call.pc # "running")

\* C8, amended: once mcp_test_runner.run_maven_tests has started the build it
\* eventually returns a mapping, after 120 seconds at the latest, and the
\* mapping returned at the timeout is {"error": "Maven test run timed out"}.
\* (server.run_maven_tests and phase4_agent.run_maven_tests pass no timeout
\* and return only when the build exits.)
C8_McpRunReturns ==
    /\ (call.variant = "mcp" /\ call.pc = "running")
          ~> (call.pc = "returned" /\ ret.kind = "mapping")
    /\ [](call.variant = "mcp" => call.elapsed <= McpTimeout)
    /\ []((call.variant = "mcp" /\ call.pc = "returned" /\ call.elapsed = McpTimeout)
            => (ret.keys = {"error"} /\ ret.error = "Maven test run timed out"))

\* The build outlasted the timeout and the call returned the timeout mapping.
C8_Witness ==
    /\ call.variant = "mcp"
    /\ call.pc = "returned"
    /\ call.elapsed = McpTimeout
    /\ ret.cause = "timeout"

----------------------------------------------------------------------------
(* SpecReview: the long-method scan of code_review_agent on one method      *)

\* Lines before and after a nested block of the method.
MaxLines == 32

RECURSIVE Lines(_)
Lines(k) == IF k = 0 THEN <<>> ELSE <<"x", "\n">> \o Lines(k - 1)

\* A method: k1 lines, then (nested) a block of k2 lines, then k3 lines,
\* then (closed) its closing brace, then the rest of the file.
MethodText(k1, nested, k2, k3, closed, rest) ==
    <<"SIG{">> \o Lines(k1)
    \o (IF nested THEN <<"x", "{">> \o Lines(k2) \o <<"}">> ELSE <<>>)
    \o Lines(k3)
    \o (IF closed THEN <<"}">> ELSE <<>>)
    \o rest

ReviewSources ==
    {MethodText(k1, nested, k2, k3, closed, rest) :
        k1 \in 0..MaxLines, nested \in BOOLEAN, k2 \in {0, 2},
        k3 \in {0, 1, MaxLines}, closed \in BOOLEAN, rest \in {<<>>, <<"\n">>}}

InitReview ==
    /\ report = AbsentReport
    /\ html = AbsentPage
    /\ host = GoodHost
    /\ ret = NoRet
    /\ cmds = <<>>
    /\ opened = {}
    /\ pc = Idle
    /\ files = {}
    /\ call = NoCall
    /\ javaSrc \in ReviewSources

NextReview == CodeReviewAgent

SpecReview == InitReview /\ [][NextReview]_vars

\* The "}" that closes the brace opened at piece i: the first one with as
\* many "{" as "}" between the two; 0 when the brace is never closed.
Opens(code, i, j) == Cardinality({k \in (i + 1)..(j - 1) : code[k] = "{"})
Closes(code, i, j) == Cardinality({k \in (i + 1)..(j - 1) : code[k] = "}"})

Balanced(code, i, j) == code[j] = "}" /\ Opens(code, i, j) = Closes(code, i, j)

ClosingBrace(code, i) ==
    IF \E j \in (i + 1)..Len(code) : Balanced(code, i, j)
    THEN CHOOSE j \in (i + 1)..Len(code) :
            /\ Balanced(code, i, j)
            /\ \A k \in (i + 1)..(j - 1) : ~Balanced(code, i, k)
    ELSE 0

NewlinesBetween(code, i, j) == Cardinality({k \in (i + 1)..(j - 1) : code[k] = "\n"})

Flagged(i) == ret.op = "code_review_agent" /\ i \in ret.long_methods

FirstBraceAfter(code, i) ==
    LET S == {j \in (i + 1)..Len(code) : code[j] = "}"}
    IN  IF S = {} THEN 0 ELSE CHOOSE j \in S : \A k \in S : j <= k

----------------------------------------------------------------------------
(* SpecImprove: runs of phase4_agent.improve_tests on the reports of        *)
(* ImproveDocs, on every host                                               *)

\* The method names of the reports of SpecImprove.
ImproveNames == {"<init>", "run", "<clinit>", "clinit"}

\* A method is uncovered (two instructions missed) or covered.
ImproveEntries ==
    [brk : {"pkg", "cls", "same"}, name : ImproveNames,
     counters : {<<Counter("INSTRUCTION", 2, 0)>>, <<Counter("INSTRUCTION", 0, 2)>>}]

\* Methods in a report of SpecImprove.
MaxImproveMethods == 2

ImproveDocs ==
    {Document(Nest(es), <<Counter("INSTRUCTION", 2, 2)>>) :
        es \in UNION {[1..n -> ImproveEntries] : n \in 0..MaxImproveMethods}}

InitImprove ==
    /\ report \in ImproveDocs \cup {AbsentReport, MalformedReport}
    /\ html = AbsentPage
    /\ host \in {h \in HostChoices : h.javaFile = "ok"}
    /\ ret = NoRet
    /\ cmds = <<>>
    /\ opened = {}
    /\ pc = Idle
    /\ files = {}
    /\ call = NoCall
    /\ javaSrc = <<>>

NextImprove ==
    \/ ImproveRunTests
    \/ ImproveParseCoverage
    \/ ImproveSuggestTests
    \/ ImproveGenerateTestFile
    \/ ImproveGitAddAll
    \/ ImproveGitCommit
    \/ ImproveGitPush

SpecImprove == InitImprove /\ [][NextImprove]_vars

\* The suggestions of the run in progress, and how many of them
\* generate_test_file has been called on.
RunSuggestions == ServerSuggestTests(report).test_suggestions

Generated == Len(RunSuggestions) - Len(pc.todo)

\* The suggestions are for distinct (class, method) pairs.
DistinctPairs(suggestions) ==
    \A i, j \in 1..Len(suggestions) :
        (suggestions[i].class = suggestions[j].class
         /\ suggestions[i].method = suggestions[j].method) => i = j

\* C11: while and after improve_tests generates the test files of
\* suggestions for distinct (class, method) pairs, the generated-tests
\* directory holds one file per suggestion handled so far: each of these
\* suggestions has its own file there, none replaced by another's.
C11_OneFilePerSuggestion ==
    (pc.at = "generate" /\ DistinctPairs(RunSuggestions)) =>
        /\ \A i \in 1..Generated : GeneratedFile(RunSuggestions[i]) \in files
        /\ Cardinality({GeneratedFile(RunSuggestions[i]).path : i \in 1..Generated})
              = Generated

\* The only command of a step is a git command.
IssuesGit(c) == Len(c) >= 1 /\ c[1][1] = "git"

\* What C13 says of one step of improve_tests, by the position it is taken
\* from: the step is the one due at that position, it issues that step's
\* command, and the run goes on to the next position.  A run stops early
\* only where the test run cannot be started or parse_coverage finds no
\* report (or fails on it), and then without computing a suggestion, writing
\* a file or issuing a git command; after git add and after git commit the
\* run goes on, to git push --dry-run, whatever these two did.
ImproveStepInOrder ==
    /\ pc.at = "idle" =>
          /\ cmds' = <<(<<"mvn", "test">>)>>
          /\ pc'.at \in {"parse", "idle"}
          /\ pc'.at = "idle" => ret'.kind = "raised"
          /\ files' = files
    /\ pc.at = "parse" =>
          /\ cmds' = <<>>
          /\ files' = files
          /\ pc'.at \in {"suggest", "idle"}
          /\ pc'.at = "suggest" <=> ret'.op = "phase4.parse_coverage"
          /\ report = AbsentReport =>
                pc' = Idle /\ ret'.kind = "None" /\ opened' = {}
    /\ pc.at = "suggest" =>
          /\ cmds' = <<>>
          /\ files' = files
          /\ ret'.op = "server.suggest_tests"
          /\ pc'.at = "generate"
    /\ (pc.at = "generate" /\ pc.todo # <<>>) =>
          /\ cmds' = <<>>
          /\ ret'.op = "phase4.generate_test_file"
          /\ pc'.at = "generate"
          /\ Len(pc'.todo) = Len(pc.todo) - 1
    /\ (pc.at = "generate" /\ pc.todo = <<>>) =>
          /\ cmds'[1] = <<"git", "add", "--all">>
          /\ files' = files
          /\ pc'.at = "commit"
    /\ pc.at = "commit" =>
          /\ cmds' = <<(<<"git", "commit", "-m", "Auto-generated improved JUnit tests">>)>>
          /\ files' = files
          /\ pc'.at = "push"
    /\ pc.at = "push" =>
          /\ cmds' = <<(<<"git", "push", "--dry-run", "origin", "main">>)>>
          /\ files' = files
          /\ pc' = Idle
    /\ pc.at \in {"idle", "parse", "suggest"} => ~IssuesGit(cmds')

\* C13: every step of every run of improve_tests is the step due in the
\* order run tests, parse coverage, suggest tests, write test files, git add,
\* git commit, git push (dry-run); a run whose report is missing ends at the
\* parse step with nothing suggested, written or issued to git; and a run
\* that reaches git add goes on to git commit and git push whatever the
\* outcome of git add and git commit.
C13_ImproveTestsOrder == [][ImproveStepInOrder]_vars

====
